---- MODULE Spec2Model ----
(***************************************************************************)
(* State-machine model of the PV / local-climate feedback simulation       *)
(* (src/gy/src): ClimateModel, Simulation.run, the single-run drivers and  *)
(* the batch sweep of main_batch.main.                                     *)
(*                                                                         *)
(* Numbers.  Python floats are modelled by scaled integers:                *)
(*   albedo, efficiency          percent            (0.25  -> 25)          *)
(*   insolation                  W/m^2                                     *)
(*   area                        m^2                                       *)
(*   power and forcing           centi-watt         (1 W   -> 100)         *)
(*   forcing per area            centi-watt / m^2                          *)
(*   temperature, anomaly        milli-degree C     (1 C   -> 1000)        *)
(*   dataset air temperature     centi-kelvin       (273.15 K -> 27315)    *)
(* Products are exact; a division rounds down to the unit of its result.   *)
(***************************************************************************)
EXTENDS Integers, Sequences, FiniteSets, TLC

----------------------------------------------------------------------------
(* Bounds of the model *)

\* horizon: config.SIMULATION_STEPS is 240; the model runs 0..MaxSteps steps
MaxSteps == 3
\* how many times the direct caller of the API invokes run() on one instance
MaxRuns == 2

Steps == 0 .. (MaxSteps - 1)

\* values the radiation dataset can hold at a time index (W/m^2)
InsolationValues == {0, 200}
\* air temperature of the dataset at time index 0 (centi-kelvin), and its
\* drift per time index
KelvinValues == {28315, 30315}
KelvinDrift == 250
\* calls of the pure functions: the largest energy (in 1000 GWh), the largest
\* scaling factor of the irradiance, the largest longitude (degrees)
MaxEnergy == 1000
MaxFactor == 3
MaxLon == 720

----------------------------------------------------------------------------
(* config.py *)

CLIMATE_SENSITIVITY == 2          \* 0.02 C per W/m^2, in hundredths
PV_TEMPERATURE_COEFFICIENT == -8  \* -0.08 %/C, in hundredths of a percent
GROUND_ALBEDO_DEFAULT == 25

\* Python's None (a material without an albedo of its own)
None == -1
\* a module attribute that was never assigned (reading it raises AttributeError)
Undefined == -2

SURFACE_TYPES ==
    << [key |-> "standard_land", albedo |-> 25],
       [key |-> "desert",        albedo |-> 40],
       [key |-> "ocean",         albedo |-> 8] >>

MATERIAL_TYPES ==
    << [key |-> "perovskite_pv", albedo |-> 15,   efficiency |-> 25],
       [key |-> "silicon_pv",    albedo |-> 10,   efficiency |-> 18],
       [key |-> "mirror",        albedo |-> 85,   efficiency |-> 0],
       [key |-> "bare_ground",   albedo |-> None, efficiency |-> 0] >>

\* 'percentage' is a fraction of the Earth's surface, here in units of 1e-4
COVERAGE_SCENARIOS ==
    << [key |-> "small_scale",   percentage |-> 1],
       [key |-> "medium_scale",  percentage |-> 10],
       [key |-> "large_scale",   percentage |-> 100],
       [key |-> "extreme_scale", percentage |-> 1000] >>

CO2_EMISSION_FACTOR_Kwh == 5366   \* 0.5366 kgCO2/kWh, in 1e-4
TCRE_C_PER_1000_GTCO2 == 5        \* 0.5 C per 1000 GtCO2, in tenths

----------------------------------------------------------------------------
(* Arithmetic helpers *)

\* Python's a / b for b # 0, rounded down
Div(a, b) == IF b > 0 THEN a \div b ELSE (0 - a) \div (0 - b)

RECURSIVE SumOf(_, _)
SumOf(s, f) == IF s = << >> THEN 0 ELSE s[1][f] + SumOf(Tail(s), f)

\* the sum of the column taken for its mean
MeanIsSum(s, f) == SumOf(s, f)

\* pandas Series.mean() of column f of a non-empty frame
Mean(s, f) == SumOf(s, f) \div Len(s)

----------------------------------------------------------------------------
VARIABLES
    driver,             \* which entry point runs in this process
    SIMULATION_STEPS,   \* config.SIMULATION_STEPS
    air_temperature,    \* temperature dataset: time index -> centi-kelvin
    rsds,               \* radiation dataset: time index -> W/m^2
    noData,             \* time indices whose lookup raises inside get_variables
    GROUND_ALBEDO,      \* the module attribute config.GROUND_ALBEDO
    pc,                 \* position of the driver / of run()
    sim,                \* the current Simulation instance
    step,               \* loop variable of run()
    ret,                \* value returned by the last run() call
    exc,                \* exception that ended the process, or "none"
    runs,               \* run() calls made on the current instance
    pair,               \* batch sweep: index of the (surface, material) pair
    coverage_idx,       \* batch sweep: index into COVERAGE_SCENARIOS
    panel_albedo,       \* batch sweep: local variable panel_albedo
    avg_local_temp_anomaly, \* batch sweep: local variable
    all_results,        \* batch sweep: the list all_results
    saved,              \* what was written to the results file
    prev,               \* direct caller: what the run of its first instance returned
    workers,            \* parallel sweep: the state of each worker
    call,               \* a call of a pure function: its name and arguments
    result              \* the value that call returned

vars == << driver, SIMULATION_STEPS, air_temperature, rsds, noData,
           GROUND_ALBEDO, pc, sim, step, ret, exc, runs, pair, coverage_idx,
           panel_albedo, avg_local_temp_anomaly, all_results, saved, prev,
           workers, call, result >>

\* the datasets and the horizon
inputVars == << driver, SIMULATION_STEPS, air_temperature, rsds, noData >>
\* what no step of a sequential driver changes
dataVars == << inputVars, workers, call, result >>
sweepVars == << pair, coverage_idx, panel_albedo, avg_local_temp_anomaly,
                all_results, prev >>

Drivers == {"main", "main_albedo_scenario", "main_batch", "api"}

\* no pure function is being called
NoCall == [fn |-> "none", args |-> << >>]

----------------------------------------------------------------------------
(* pv_model.py is not part of the sources; PVModel follows the            *)
(* specification's PVPowerModel and PanelSpec.                             *)

PVModel(area) == [area |-> area, albedo |-> 15, efficiency |-> 25]

\* rawPower = insolation x area x efficiency, derated linearly around 25 C by
\* 1 + coefficient x (T - 25) / 100, floored at 0.   Result in centi-watt.
calculate_power(pv, insolation, temperature) ==
    LET raw == insolation * pv.area * pv.efficiency
        derated == raw + Div(Div(raw, 1000) * PV_TEMPERATURE_COEFFICIENT
                                 * (temperature - 25000), 10000)
    IN  IF derated < 0 THEN 0 ELSE derated

----------------------------------------------------------------------------
(* climate_model.py: ClimateModel *)

ClimateModel == [temp_data |-> None, rad_data |-> None,
                 temperature_anomaly_C |-> 0]

\* load_data: each open_dataset either succeeds (1: a dataset) or raises and
\* leaves None
load_data(self, tempOpens, radOpens) ==
    [self EXCEPT !.temp_data = IF tempOpens THEN 1 ELSE None,
                 !.rad_data  = IF radOpens THEN 1 ELSE None]

\* get_variables, lines 43-44: the longitude handed to the dataset lookup
lon_conformed(lon) == IF lon >= 0 THEN lon ELSE 360 + lon

NoVariables == [ok |-> FALSE, temperature |-> 0, insolation |-> 0]

\* get_variables returning the baseline without the anomaly
get_variables_baseline_only(self, time_index) ==
    IF self.temp_data = None \/ self.rad_data = None
    THEN NoVariables
    ELSE IF time_index \in noData
    THEN NoVariables
    ELSE [ok |-> TRUE,
          temperature |-> (air_temperature[time_index] - 27315) * 10,
          insolation |-> rsds[time_index]]

\* get_variables: None when a dataset is missing or the selection raises,
\* else the current temperature (baseline + anomaly) and the insolation
get_variables(self, time_index) ==
    IF self.temp_data = None \/ self.rad_data = None
    THEN NoVariables
    ELSE IF time_index \in noData
    THEN NoVariables
    ELSE LET temp_k == air_temperature[time_index]
             baseline_temp_c == (temp_k - 27315) * 10
         IN  [ok |-> TRUE,
              temperature |-> baseline_temp_c + self.temperature_anomaly_C,
              insolation |-> rsds[time_index]]

\* apply_energy_forcing adding to the prior anomaly
\* the irradiance left out of the energy the ground absorbs
calculate_net_radiation_change_offset(solar_irradiance, ground_albedo, panel_albedo_, pv_efficiency) ==
    LET energy_absorbed_ground == 100 * (100 - ground_albedo)
        energy_absorbed_panel == solar_irradiance * (100 - panel_albedo_)
        waste_heat == energy_absorbed_panel * (100 - pv_efficiency)
    IN  waste_heat - energy_absorbed_ground

\* the electricity taken for the waste heat
calculate_net_radiation_change_electricity(solar_irradiance, ground_albedo, panel_albedo_, pv_efficiency) ==
    LET energy_absorbed_ground == solar_irradiance * (100 - ground_albedo)
        energy_absorbed_panel == solar_irradiance * (100 - panel_albedo_)
        waste_heat == energy_absorbed_panel * pv_efficiency
    IN  waste_heat - energy_absorbed_ground * 100

\* calculate_net_radiation_change, lines 110-137: irradiance in W/m^2,
\* albedos and efficiency in percent, the change in 1e-4 W/m^2
\* (panel_albedo_ is the parameter panel_albedo)
calculate_net_radiation_change(solar_irradiance, ground_albedo, panel_albedo_, pv_efficiency) ==
    LET energy_absorbed_ground == solar_irradiance * (100 - ground_albedo)
        energy_absorbed_panel == solar_irradiance * (100 - panel_albedo_)
        waste_heat == energy_absorbed_panel * (100 - pv_efficiency)
    IN  waste_heat - energy_absorbed_ground * 100

apply_energy_forcing_accumulates(self, energy_watts, area_m2) ==
    [self EXCEPT !.temperature_anomaly_C =
         @ + (Div(energy_watts, area_m2) * CLIMATE_SENSITIVITY) \div 10]

\* apply_energy_forcing, area_m2 # 0
apply_energy_forcing(self, energy_watts, area_m2) ==
    LET forcing_w_m2 == Div(energy_watts, area_m2)
    IN  [self EXCEPT !.temperature_anomaly_C =
                         (forcing_w_m2 * CLIMATE_SENSITIVITY) \div 10]

----------------------------------------------------------------------------
(* simulation.py: Simulation *)

Simulation == [climate |-> ClimateModel, pv |-> PVModel(1000),
               results |-> << >>]


\* the loop body recording the anomaly it read, not the one it stored
step_body_records_prior(self, ground_albedo, time_index, climate_vars) ==
    LET insolation == climate_vars.insolation
        final_power_W == calculate_power(self.pv, insolation,
                                         climate_vars.temperature)
        albedo_forcing_W == insolation * self.pv.area
                                * (ground_albedo - self.pv.albedo)
        waste_heat_forcing_W ==
            insolation * self.pv.area * (100 - self.pv.albedo) - final_power_W
    IN  [self EXCEPT
            !.climate = apply_energy_forcing(self.climate,
                            albedo_forcing_W + waste_heat_forcing_W,
                            self.pv.area),
            !.results = Append(@,
                [month |-> time_index,
                 local_temp_C |-> climate_vars.temperature,
                 temp_anomaly_C |-> self.climate.temperature_anomaly_C,
                 insolation_W_m2 |-> insolation,
                 albedo_forcing_W |-> albedo_forcing_W,
                 waste_heat_forcing_W |-> waste_heat_forcing_W,
                 pv_power_W |-> final_power_W])]

\* the panel taken to absorb all of the insolation
step_body_absorbs_all(self, ground_albedo, time_index, climate_vars) ==
    LET insolation == climate_vars.insolation
        current_local_temp == climate_vars.temperature
        final_power_W == calculate_power(self.pv, insolation, current_local_temp)
        albedo_forcing_W == insolation * self.pv.area
                                * (ground_albedo - self.pv.albedo)
        absorbed_energy_W == insolation * self.pv.area * 100
        waste_heat_forcing_W == absorbed_energy_W - final_power_W
        total_forcing_W == albedo_forcing_W + waste_heat_forcing_W
        climate == apply_energy_forcing(self.climate, total_forcing_W,
                                        self.pv.area)
    IN  [self EXCEPT
            !.climate = climate,
            !.results = Append(@,
                [month |-> time_index,
                 local_temp_C |-> current_local_temp,
                 temp_anomaly_C |-> climate.temperature_anomaly_C,
                 insolation_W_m2 |-> insolation,
                 albedo_forcing_W |-> albedo_forcing_W,
                 waste_heat_forcing_W |-> waste_heat_forcing_W,
                 pv_power_W |-> final_power_W])]

\* one iteration of the loop body of run() after a successful lookup
\* (lines 46-79): the instance after the step
step_body(self, ground_albedo, time_index, climate_vars) ==
    LET insolation == climate_vars.insolation
        current_local_temp == climate_vars.temperature
        final_power_W == calculate_power(self.pv, insolation, current_local_temp)
        albedo_forcing_W == insolation * self.pv.area
                                * (ground_albedo - self.pv.albedo)
        absorbed_energy_W == insolation * self.pv.area * (100 - self.pv.albedo)
        waste_heat_forcing_W == absorbed_energy_W - final_power_W
        total_forcing_W == albedo_forcing_W + waste_heat_forcing_W
        climate == apply_energy_forcing(self.climate, total_forcing_W,
                                        self.pv.area)
    IN  [self EXCEPT
            !.climate = climate,
            !.results = Append(@,
                [month |-> time_index,
                 local_temp_C |-> current_local_temp,
                 temp_anomaly_C |-> climate.temperature_anomaly_C,
                 insolation_W_m2 |-> insolation,
                 albedo_forcing_W |-> albedo_forcing_W,
                 waste_heat_forcing_W |-> waste_heat_forcing_W,
                 pv_power_W |-> final_power_W])]

\* the halt test looking at the temperature dataset alone
DataMissingTempOnly(climate) == climate.temp_data = None

\* run(), line 26: the run halts when a dataset is missing
DataMissing(climate) == climate.temp_data = None \/ climate.rad_data = None

\* run(), lines 24-28: load the data; halt with [] when a dataset is missing
RunLoad ==
    /\ pc = "run"
    /\ \E tempOpens \in BOOLEAN, radOpens \in BOOLEAN :
          LET climate == load_data(sim.climate, tempOpens, radOpens)
          IN  /\ sim' = [sim EXCEPT !.climate = climate]
              /\ IF DataMissing(climate)
                 THEN /\ pc' = "returned"
                      /\ ret' = << >>
                      /\ step' = step
                 ELSE /\ pc' = "loop"
                      /\ ret' = ret
                      /\ step' = 0
    /\ runs' = runs + 1
    /\ UNCHANGED << dataVars, GROUND_ALBEDO, exc, sweepVars, saved >>

\* a failed lookup clearing the anomaly
RunSkipResets ==
    /\ pc = "loop"
    /\ step < SIMULATION_STEPS
    /\ ~ get_variables(sim.climate, step).ok
    /\ step' = step + 1
    /\ sim' = [sim EXCEPT !.climate.temperature_anomaly_C = 0]
    /\ UNCHANGED << dataVars, GROUND_ALBEDO, pc, ret, exc, runs, sweepVars,
                    saved >>

\* a failed lookup leaving the loop (break instead of continue)
RunSkipBreaks ==
    /\ pc = "loop"
    /\ step < SIMULATION_STEPS
    /\ ~ get_variables(sim.climate, step).ok
    /\ step' = SIMULATION_STEPS
    /\ UNCHANGED << dataVars, GROUND_ALBEDO, pc, sim, ret, exc, runs,
                    sweepVars, saved >>

\* run(), lines 34-42: the lookup of this step fails, the step is skipped
RunSkip ==
    /\ pc = "loop"
    /\ step < SIMULATION_STEPS
    /\ ~ get_variables(sim.climate, step).ok
    /\ step' = step + 1
    /\ UNCHANGED << dataVars, GROUND_ALBEDO, pc, sim, ret, exc, runs,
                    sweepVars, saved >>

\* run(), line 56: config.GROUND_ALBEDO was never assigned
RunAttributeError ==
    /\ pc = "loop"
    /\ step < SIMULATION_STEPS
    /\ get_variables(sim.climate, step).ok
    /\ GROUND_ALBEDO = Undefined
    /\ pc' = "raised"
    /\ exc' = "AttributeError"
    /\ UNCHANGED << dataVars, GROUND_ALBEDO, sim, step, ret, runs, sweepVars,
                    saved >>

\* run(), line 66: energy_watts / area_m2 with a panel area of 0
RunZeroDivisionError ==
    /\ pc = "loop"
    /\ step < SIMULATION_STEPS
    /\ get_variables(sim.climate, step).ok
    /\ GROUND_ALBEDO # Undefined
    /\ sim.pv.area = 0
    /\ pc' = "raised"
    /\ exc' = "ZeroDivisionError"
    /\ UNCHANGED << dataVars, GROUND_ALBEDO, sim, step, ret, runs, sweepVars,
                    saved >>

\* run(), lines 46-79: one step of the feedback loop
RunStep ==
    /\ pc = "loop"
    /\ step < SIMULATION_STEPS
    /\ get_variables(sim.climate, step).ok
    /\ GROUND_ALBEDO # Undefined
    /\ sim.pv.area # 0
    /\ sim' = step_body(sim, GROUND_ALBEDO, step,
                        get_variables(sim.climate, step))
    /\ step' = step + 1
    /\ UNCHANGED << dataVars, GROUND_ALBEDO, pc, ret, exc, runs, sweepVars,
                    saved >>

\* run(), lines 81-82
RunReturn ==
    /\ pc = "loop"
    /\ step = SIMULATION_STEPS
    /\ pc' = "returned"
    /\ ret' = sim.results
    /\ UNCHANGED << dataVars, GROUND_ALBEDO, sim, step, exc, runs, sweepVars,
                    saved >>

----------------------------------------------------------------------------
(* main.py and main_albedo_scenario.py *)

\* main.main, lines 17-19
Main ==
    /\ driver = "main"
    /\ pc = "start"
    /\ sim' = Simulation
    /\ runs' = 0
    /\ pc' = "run"
    /\ UNCHANGED << dataVars, GROUND_ALBEDO, step, ret, exc, sweepVars, saved >>

\* main_albedo_scenario.main, lines 21-30
MainAlbedoScenario ==
    /\ driver = "main_albedo_scenario"
    /\ pc = "start"
    /\ sim' = [Simulation EXCEPT !.pv.efficiency = 22, !.pv.albedo = 40]
    /\ runs' = 0
    /\ pc' = "run"
    /\ UNCHANGED << dataVars, GROUND_ALBEDO, step, ret, exc, sweepVars, saved >>

\* main.main lines 21-25, main_albedo_scenario.main lines 32-36
SaveResults ==
    /\ driver \in {"main", "main_albedo_scenario"}
    /\ pc = "returned"
    /\ saved' = ret
    /\ pc' = "done"
    /\ UNCHANGED << dataVars, GROUND_ALBEDO, sim, step, ret, exc, runs,
                    sweepVars >>

----------------------------------------------------------------------------
(* main_batch.py *)

\* the global temperature change without its sign
calculate_global_impact_warming(total_energy_gwh) ==
    LET total_co2_reduction_gtco2 == total_energy_gwh * CO2_EMISSION_FACTOR_Kwh
        global_temp_change_c == total_co2_reduction_gtco2 * TCRE_C_PER_1000_GTCO2
    IN  << global_temp_change_c, total_co2_reduction_gtco2 >>

\* energy in units of (1e-4 x EARTH_SURFACE_AREA_M2 x simulation_hours) Wh per
\* W/m^2; CO2 in units of that energy x 1e-4 kg/kWh; temperature change in
\* units of that CO2 x 1e-4 C (energy in 1000 GWh gives CO2 in 1e-7 GtCO2 and
\* temperature change in 1e-11 C)
calculate_global_impact(total_energy_gwh) ==
    LET total_co2_reduction_gtco2 == total_energy_gwh * CO2_EMISSION_FACTOR_Kwh
        global_temp_change_c ==
            0 - (total_co2_reduction_gtco2 * TCRE_C_PER_1000_GTCO2)
    IN  << global_temp_change_c, total_co2_reduction_gtco2 >>

\* the surface varying fastest (surface loop nested inside the material loop)
SurfaceInner(p) == SURFACE_TYPES[((p - 1) % Len(SURFACE_TYPES)) + 1]

\* .get('albedo', default) alone: the key is present, None is returned as is
PanelAlbedoNoNoneCheck(surface_params, material_params) ==
    material_params.albedo

NumPairs == Len(SURFACE_TYPES) * Len(MATERIAL_TYPES)
\* nested enumeration: surface outer, material inner
SurfaceOf(p) == SURFACE_TYPES[((p - 1) \div Len(MATERIAL_TYPES)) + 1]
MaterialOf(p) == MATERIAL_TYPES[((p - 1) % Len(MATERIAL_TYPES)) + 1]

\* lines 48-50: the panel albedo of a (surface, material) pair
PanelAlbedo(surface_params, material_params) ==
    IF material_params.albedo = None THEN surface_params.albedo
    ELSE material_params.albedo

\* a new Simulation on the climate model of the instance before it
NewScenarioSimSharedClimate(surface_params, material_params) ==
    [Simulation EXCEPT
        !.pv.albedo = PanelAlbedo(surface_params, material_params),
        !.pv.efficiency = material_params.efficiency,
        !.climate.temperature_anomaly_C = sim.climate.temperature_anomaly_C]

\* the material's efficiency not set on the panel
NewScenarioSimKeepsEfficiency(surface_params, material_params) ==
    [Simulation EXCEPT
        !.pv.albedo = PanelAlbedo(surface_params, material_params)]

\* lines 44-53: a fresh Simulation with the pair's panel parameters
NewScenarioSim(surface_params, material_params) ==
    [Simulation EXCEPT
        !.pv.albedo = PanelAlbedo(surface_params, material_params),
        !.pv.efficiency = material_params.efficiency]

\* pv_power_W / 1000 of one record, in W/m^2
RECURSIVE PowerDensity(_)
PowerDensity(df) ==
    IF df = << >> THEN << >>
    ELSE << [pv_power_density_W_m2 |-> df[1].pv_power_W \div 100000] >>
         \o PowerDensity(Tail(df))

\* the total panel area taken without the coverage percentage
GlobalImpactFixedArea(material_params, coverage_params, scenario_df) ==
    IF material_params.efficiency = 0
    THEN << 0, 0 >>
    ELSE LET total_panel_area_m2 == 1
             mean_power_density_w_m2 ==
                 Mean(PowerDensity(scenario_df), "pv_power_density_W_m2")
             total_energy_gwh == mean_power_density_w_m2 * total_panel_area_m2
         IN  calculate_global_impact(total_energy_gwh)

\* lines 72-91: global impact of one coverage scenario
GlobalImpact(material_params, coverage_params, scenario_df) ==
    IF material_params.efficiency = 0
    THEN << 0, 0 >>
    ELSE LET total_panel_area_m2 == coverage_params.percentage
             mean_power_density_w_m2 ==
                 Mean(PowerDensity(scenario_df), "pv_power_density_W_m2")
             total_energy_gwh == mean_power_density_w_m2 * total_panel_area_m2
         IN  calculate_global_impact(total_energy_gwh)

\* the row with the local anomaly stored under global_temp_change_C
ResultRowSwapped(surface_params, material_params, coverage_params, albedo, avg, impact) ==
    [surface_type |-> surface_params.key,
     material_type |-> material_params.key,
     coverage_scenario |-> coverage_params.key,
     surface_albedo |-> surface_params.albedo,
     panel_albedo |-> albedo,
     panel_efficiency |-> material_params.efficiency,
     avg_local_temp_anomaly_C |-> impact[1],
     global_temp_change_C |-> avg,
     total_co2_reduction_Gt |-> impact[2]]

\* lines 94-104: the summary row of one (surface, material, coverage) triple
ResultRow(surface_params, material_params, coverage_params, albedo, avg, impact) ==
    [surface_type |-> surface_params.key,
     material_type |-> material_params.key,
     coverage_scenario |-> coverage_params.key,
     surface_albedo |-> surface_params.albedo,
     panel_albedo |-> albedo,
     panel_efficiency |-> material_params.efficiency,
     avg_local_temp_anomaly_C |-> avg,
     global_temp_change_C |-> impact[1],
     total_co2_reduction_Gt |-> impact[2]]

\* the instance of the pair before kept for the next pair: only the panel
\* parameters are set again
BatchNewSimReuses ==
    /\ driver = "main_batch"
    /\ pc \in {"start", "next_pair"}
    /\ sim' = [sim EXCEPT
          !.pv.albedo = PanelAlbedo(SurfaceOf(pair), MaterialOf(pair)),
          !.pv.efficiency = MaterialOf(pair).efficiency]
    /\ panel_albedo' = PanelAlbedo(SurfaceOf(pair), MaterialOf(pair))
    /\ GROUND_ALBEDO' = SurfaceOf(pair).albedo
    /\ runs' = 0
    /\ pc' = "run"
    /\ UNCHANGED << dataVars, step, ret, exc, pair, coverage_idx,
                    avg_local_temp_anomaly, all_results, saved, prev >>

\* lines 39-56: next (surface, material) pair: fresh Simulation, panel
\* parameters, config.GROUND_ALBEDO
BatchNewSim ==
    /\ driver = "main_batch"
    /\ pc \in {"start", "next_pair"}
    /\ sim' = NewScenarioSim(SurfaceOf(pair), MaterialOf(pair))
    /\ panel_albedo' = PanelAlbedo(SurfaceOf(pair), MaterialOf(pair))
    /\ GROUND_ALBEDO' = SurfaceOf(pair).albedo
    /\ runs' = 0
    /\ pc' = "run"
    /\ UNCHANGED << dataVars, step, ret, exc, pair, coverage_idx,
                    avg_local_temp_anomaly, all_results, saved, prev >>

\* lines 60-64: scenario_df['temp_anomaly_C'] of an empty frame raises KeyError
BatchKeyError ==
    /\ driver = "main_batch"
    /\ pc = "returned"
    /\ ret = << >>
    /\ pc' = "raised"
    /\ exc' = "KeyError"
    /\ UNCHANGED << dataVars, GROUND_ALBEDO, sim, step, ret, runs, sweepVars,
                    saved >>

\* lines 60-67
BatchAggregate ==
    /\ driver = "main_batch"
    /\ pc = "returned"
    /\ ret # << >>
    /\ avg_local_temp_anomaly' = Mean(ret, "temp_anomaly_C")
    /\ coverage_idx' = 1
    /\ pc' = "coverage"
    /\ UNCHANGED << dataVars, GROUND_ALBEDO, sim, step, ret, exc, runs, pair,
                    panel_albedo, all_results, saved, prev >>

\* lines 70-106: one iteration of the coverage loop
BatchCoverage ==
    /\ driver = "main_batch"
    /\ pc = "coverage"
    /\ all_results' = Append(all_results,
          ResultRow(SurfaceOf(pair), MaterialOf(pair),
                    COVERAGE_SCENARIOS[coverage_idx], panel_albedo,
                    avg_local_temp_anomaly,
                    GlobalImpact(MaterialOf(pair),
                                 COVERAGE_SCENARIOS[coverage_idx], ret)))
    /\ IF coverage_idx < Len(COVERAGE_SCENARIOS)
       THEN /\ coverage_idx' = coverage_idx + 1
            /\ UNCHANGED << pair, pc >>
       ELSE /\ coverage_idx' = 1
            /\ IF pair < NumPairs
               THEN pair' = pair + 1 /\ pc' = "next_pair"
               ELSE pair' = pair /\ pc' = "save"
    /\ UNCHANGED << dataVars, GROUND_ALBEDO, sim, step, ret, exc, runs,
                    panel_albedo, avg_local_temp_anomaly, saved, prev >>

\* lines 108-111
BatchSave ==
    /\ driver = "main_batch"
    /\ pc = "save"
    /\ saved' = all_results
    /\ pc' = "done"
    /\ UNCHANGED << dataVars, GROUND_ALBEDO, sim, step, ret, exc, runs,
                    sweepVars >>

----------------------------------------------------------------------------
(* A direct caller of the Simulation API (as main_batch and                *)
(* scripts/goal_seek.py are): it configures one instance for a pair and    *)
(* may call run() on it again.                                             *)
ApiNewSim ==
    /\ driver = "api"
    /\ pc = "start"
    /\ \E p \in 1 .. NumPairs :
          /\ pair' = p
          /\ sim' = NewScenarioSim(SurfaceOf(p), MaterialOf(p))
          /\ panel_albedo' = PanelAlbedo(SurfaceOf(p), MaterialOf(p))
          /\ GROUND_ALBEDO' = SurfaceOf(p).albedo
    /\ runs' = 0
    /\ pc' = "run"
    /\ UNCHANGED << dataVars, step, ret, exc, coverage_idx,
                    avg_local_temp_anomaly, all_results, saved, prev >>

\* a further call of run() on the same instance
ApiRunAgain ==
    /\ driver = "api"
    /\ pc = "returned"
    /\ runs < MaxRuns
    /\ pc' = "run"
    /\ UNCHANGED << dataVars, GROUND_ALBEDO, sim, step, ret, exc, runs,
                    sweepVars, saved >>

(* A caller that sets the panel area of its instance, and runs a second,   *)
(* fresh instance configured the same way on the same datasets.            *)

\* the panel areas a caller sets on sim.pv.area (m^2)
PanelAreas == {1000, 0, -1000}

NoPrev == [set |-> FALSE, loaded |-> FALSE, ret |-> << >>]

CallerNewSim ==
    /\ driver = "caller"
    /\ pc = "start"
    /\ \E p \in 1 .. NumPairs, a \in PanelAreas :
          /\ pair' = p
          /\ sim' = [NewScenarioSim(SurfaceOf(p), MaterialOf(p))
                        EXCEPT !.pv.area = a]
          /\ panel_albedo' = PanelAlbedo(SurfaceOf(p), MaterialOf(p))
          /\ GROUND_ALBEDO' = SurfaceOf(p).albedo
    /\ runs' = 0
    /\ pc' = "run"
    /\ UNCHANGED << dataVars, step, ret, exc, coverage_idx,
                    avg_local_temp_anomaly, all_results, saved, prev >>

\* the first instance has returned: a second, fresh instance for the same
\* pair and area
CallerFreshSim ==
    /\ driver = "caller"
    /\ pc = "returned"
    /\ ~ prev.set
    /\ prev' = [set |-> TRUE, loaded |-> ~ DataMissing(sim.climate),
                ret |-> ret]
    /\ sim' = [NewScenarioSim(SurfaceOf(pair), MaterialOf(pair))
                  EXCEPT !.pv.area = sim.pv.area]
    /\ GROUND_ALBEDO' = SurfaceOf(pair).albedo
    /\ runs' = 0
    /\ pc' = "run"
    /\ UNCHANGED << dataVars, step, ret, exc, pair, coverage_idx,
                    panel_albedo, avg_local_temp_anomaly, all_results, saved >>

----------------------------------------------------------------------------
(* The sweep of main_batch.py with the body of its (surface, material)     *)
(* loop dispatched to parallel workers: each worker executes lines 44-59   *)
(* for its pair, and the statements of different workers interleave. The   *)
(* module config is one object of the process, shared by the workers.      *)

NumWorkers == 2

\* the pair of worker w: the workers take the same material over
\* consecutive surfaces
WorkerPair(first, w) == first + (w - 1) * Len(MATERIAL_TYPES)

Worker(p) == [pair |-> p, pc |-> "start", sim |-> Simulation, step |-> 0,
              ret |-> << >>]

\* main_batch.main, lines 44-56, in worker w
WorkerNewSim(w) ==
    /\ workers[w].pc = "start"
    /\ LET p == workers[w].pair
       IN  /\ workers' = [workers EXCEPT
                 ![w].sim = NewScenarioSim(SurfaceOf(p), MaterialOf(p)),
                 ![w].pc = "run"]
           /\ GROUND_ALBEDO' = SurfaceOf(p).albedo
    /\ UNCHANGED << inputVars, call, result, pc, sim, step, ret, exc, runs,
                    sweepVars, saved >>

\* run(), lines 24-28, in worker w
WorkerLoad(w) ==
    /\ workers[w].pc = "run"
    /\ \E tempOpens \in BOOLEAN, radOpens \in BOOLEAN :
          LET climate == load_data(workers[w].sim.climate, tempOpens, radOpens)
          IN  workers' = [workers EXCEPT
                 ![w].sim.climate = climate,
                 ![w].pc = IF DataMissing(climate) THEN "returned" ELSE "loop",
                 ![w].step = 0]
    /\ UNCHANGED << inputVars, call, result, GROUND_ALBEDO, pc, sim, step, ret,
                    exc, runs, sweepVars, saved >>

\* run(), lines 34-42, in worker w
WorkerSkip(w) ==
    /\ workers[w].pc = "loop"
    /\ workers[w].step < SIMULATION_STEPS
    /\ ~ get_variables(workers[w].sim.climate, workers[w].step).ok
    /\ workers' = [workers EXCEPT ![w].step = @ + 1]
    /\ UNCHANGED << inputVars, call, result, GROUND_ALBEDO, pc, sim, step, ret,
                    exc, runs, sweepVars, saved >>

\* run(), lines 46-79, in worker w: line 56 reads config.GROUND_ALBEDO
WorkerStep(w) ==
    /\ workers[w].pc = "loop"
    /\ workers[w].step < SIMULATION_STEPS
    /\ get_variables(workers[w].sim.climate, workers[w].step).ok
    /\ workers' = [workers EXCEPT
          ![w].sim = step_body(workers[w].sim, GROUND_ALBEDO, workers[w].step,
                               get_variables(workers[w].sim.climate,
                                             workers[w].step)),
          ![w].step = @ + 1]
    /\ UNCHANGED << inputVars, call, result, GROUND_ALBEDO, pc, sim, step, ret,
                    exc, runs, sweepVars, saved >>

\* run(), lines 81-82, in worker w
WorkerReturn(w) ==
    /\ workers[w].pc = "loop"
    /\ workers[w].step = SIMULATION_STEPS
    /\ workers' = [workers EXCEPT ![w].pc = "returned",
                                  ![w].ret = workers[w].sim.results]
    /\ UNCHANGED << inputVars, call, result, GROUND_ALBEDO, pc, sim, step, ret,
                    exc, runs, sweepVars, saved >>

----------------------------------------------------------------------------
(* Calls of the pure functions on their own *)

PureIrradiance == {0, 100, 700}
PureAlbedos == {0, 15, 25, 40, 100}
PureEfficiencies == {0, 25, 100}

Calls ==
    {[fn |-> "calculate_global_impact", args |-> << e >>] :
        e \in 0 .. MaxEnergy}
    \cup {[fn |-> "calculate_net_radiation_change",
           args |-> << i, ga, pa, e >>] :
            i \in PureIrradiance, ga \in PureAlbedos, pa \in PureAlbedos,
            e \in PureEfficiencies}
    \cup {[fn |-> "get_variables", args |-> << lon >>] :
            lon \in (0 - MaxLon) .. MaxLon}

CallGlobalImpact ==
    /\ call.fn = "calculate_global_impact"
    /\ result = << >>
    /\ result' = calculate_global_impact(call.args[1])
    /\ UNCHANGED << inputVars, workers, call, GROUND_ALBEDO, pc, sim, step,
                    ret, exc, runs, sweepVars, saved >>

CallNetRadiationChange ==
    /\ call.fn = "calculate_net_radiation_change"
    /\ result = << >>
    /\ result' = << calculate_net_radiation_change(call.args[1], call.args[2],
                                                   call.args[3], call.args[4]) >>
    /\ UNCHANGED << inputVars, workers, call, GROUND_ALBEDO, pc, sim, step,
                    ret, exc, runs, sweepVars, saved >>

\* get_variables up to the lookup: the longitude it is made with
CallLonConformed ==
    /\ call.fn = "get_variables"
    /\ result = << >>
    /\ result' = << lon_conformed(call.args[1]) >>
    /\ UNCHANGED << inputVars, workers, call, GROUND_ALBEDO, pc, sim, step,
                    ret, exc, runs, sweepVars, saved >>

----------------------------------------------------------------------------
\* the horizon, the datasets and the steps whose lookup fails
InitData ==
    /\ SIMULATION_STEPS \in 0 .. MaxSteps
    /\ \E k \in KelvinValues :
          air_temperature = [i \in Steps |-> k + i * KelvinDrift]
    /\ rsds \in [Steps -> InsolationValues]
    /\ noData \in SUBSET Steps

\* the state of a sequential driver before its first statement
InitProgram ==
    /\ GROUND_ALBEDO = Undefined
    /\ pc = "start"
    /\ sim = Simulation
    /\ step = 0
    /\ ret = << >>
    /\ exc = "none"
    /\ runs = 0
    /\ pair = 1
    /\ coverage_idx = 1
    /\ panel_albedo = None
    /\ avg_local_temp_anomaly = 0
    /\ all_results = << >>
    /\ saved = << >>
    /\ prev = NoPrev

Init ==
    /\ driver \in Drivers
    /\ InitData
    /\ InitProgram
    /\ workers = << >>
    /\ call = NoCall
    /\ result = << >>

Next ==
    \/ Main
    \/ MainAlbedoScenario
    \/ SaveResults
    \/ BatchNewSim
    \/ BatchKeyError
    \/ BatchAggregate
    \/ BatchCoverage
    \/ BatchSave
    \/ ApiNewSim
    \/ ApiRunAgain
    \/ RunLoad
    \/ RunSkip
    \/ RunAttributeError
    \/ RunStep
    \/ RunReturn

Spec == Init /\ [][Next]_vars

\* the parallel sweep: every worker has its pair before any of them starts
InitParallel ==
    /\ driver = "main_batch_parallel"
    /\ InitData
    /\ InitProgram
    /\ \E first \in 1 .. Len(MATERIAL_TYPES) :
          workers = [w \in 1 .. NumWorkers |-> Worker(WorkerPair(first, w))]
    /\ call = NoCall
    /\ result = << >>

NextParallel ==
    \E w \in 1 .. NumWorkers :
        \/ WorkerNewSim(w)
        \/ WorkerLoad(w)
        \/ WorkerSkip(w)
        \/ WorkerStep(w)
        \/ WorkerReturn(w)

SpecParallel == InitParallel /\ [][NextParallel]_vars

\* one call of a pure function, no run in progress
InitPure ==
    /\ driver = "none"
    /\ SIMULATION_STEPS = 0
    /\ air_temperature = [i \in Steps |-> 27315]
    /\ rsds = [i \in Steps |-> 0]
    /\ noData = {}
    /\ InitProgram
    /\ workers = << >>
    /\ call \in Calls
    /\ result = << >>

NextPure ==
    \/ CallGlobalImpact
    \/ CallNetRadiationChange
    \/ CallLonConformed

SpecPure == InitPure /\ [][NextPure]_vars

\* the caller that sets the panel area and compares two fresh instances
InitCaller ==
    /\ driver = "caller"
    /\ InitData
    /\ InitProgram
    /\ workers = << >>
    /\ call = NoCall
    /\ result = << >>

NextCaller ==
    \/ CallerNewSim
    \/ CallerFreshSim
    \/ RunLoad
    \/ RunSkip
    \/ RunZeroDivisionError
    \/ RunStep
    \/ RunReturn

SpecCaller == InitCaller /\ [][NextCaller]_vars

----------------------------------------------------------------------------
(* What the claims speak about *)

\* baseline temperature of the dataset at a step, in milli-degree C
Baseline(i) == (air_temperature[i] - 27315) * 10

\* (energy / area) x climate sensitivity, in milli-degree C
AnomalyOf(energy_watts, area_m2) ==
    (Div(energy_watts, area_m2) * CLIMATE_SENSITIVITY) \div 10

\* the total forcing of a recorded step
TotalForcing(r) == r.albedo_forcing_W + r.waste_heat_forcing_W

\* no lookup of the horizon fails
NoFailures == noData \cap (0 .. (SIMULATION_STEPS - 1)) = {}

Last(s) == s[Len(s)]

\* the steps of the horizon whose lookup succeeds, in increasing order
RECURSIVE GoodSteps(_)
GoodSteps(n) ==
    IF n = 0 THEN << >>
    ELSE IF (n - 1) \in noData THEN GoodSteps(n - 1)
    ELSE Append(GoodSteps(n - 1), n - 1)

Months(rs) == [k \in 1 .. Len(rs) |-> rs[k].month]

----------------------------------------------------------------------------
\* C1: every call of apply_energy_forcing (one per recorded step) leaves
\* temperature_anomaly_C equal to (energy_watts / area_m2) x
\* CLIMATE_SENSITIVITY of that call alone, whatever the anomaly was before.
C1_Overwrites ==
    [][ Len(sim'.results) = Len(sim.results) + 1 =>
          sim'.climate.temperature_anomaly_C =
              AnomalyOf(TotalForcing(Last(sim'.results)), sim.pv.area) ]_vars

\* a call was made while the anomaly of the call before it was not 0
C1_Witness ==
    /\ Len(sim.results) >= 2
    /\ sim.results[Len(sim.results) - 1].temp_anomaly_C # 0
    /\ Last(sim.results).insolation_W_m2 > 0
    /\ sim.climate.temperature_anomaly_C =
           AnomalyOf(TotalForcing(Last(sim.results)), sim.pv.area)

C3_LocalTemperature ==
    (NoFailures /\ runs <= 1) =>
        \A k \in 1 .. Len(sim.results) :
            /\ sim.results[k].month = k - 1
            /\ sim.results[k].local_temp_C =
                   Baseline(k - 1)
                   + (IF k = 1 THEN 0
                      ELSE AnomalyOf(TotalForcing(sim.results[k - 1]),
                                     sim.pv.area))

\* a step i >= 1 was recorded above its baseline
C3_Witness ==
    /\ NoFailures
    /\ runs = 1
    /\ Len(sim.results) >= 2
    /\ sim.results[2].local_temp_C # Baseline(1)

\* C4 as stated: the anomaly of step i offsets the local temperature of step
\* i+1 only, never that of a later step, also when the lookup of i+1 fails:
\* a recorded step is offset by the anomaly of the step right before it, and
\* by nothing when that step was not recorded.
C4_OffsetOfNextStepOnly ==
    runs <= 1 =>
        \A k \in 1 .. Len(sim.results) :
            sim.results[k].local_temp_C - Baseline(sim.results[k].month) =
                (IF k > 1 /\ sim.results[k - 1].month = sim.results[k].month - 1
                 THEN AnomalyOf(TotalForcing(sim.results[k - 1]), sim.pv.area)
                 ELSE 0)

\* C4 amended: the anomaly of step i offsets the local temperature of the
\* next step whose lookup succeeds, and of no step after that one: a recorded
\* step is offset by the anomaly of the step recorded before it.
C4_OffsetOfNextRecordedStepOnly ==
    runs <= 1 =>
        \A k \in 1 .. Len(sim.results) :
            sim.results[k].local_temp_C - Baseline(sim.results[k].month) =
                (IF k > 1
                 THEN AnomalyOf(TotalForcing(sim.results[k - 1]), sim.pv.area)
                 ELSE 0)

\* a step was recorded after a failed one, offset by the non-zero anomaly of
\* the step recorded before the failure
C4_Witness ==
    /\ runs = 1
    /\ Len(sim.results) >= 2
    /\ sim.results[1].temp_anomaly_C # 0
    /\ sim.results[2].month > sim.results[1].month + 1
    /\ sim.results[2].local_temp_C =
           Baseline(sim.results[2].month) + sim.results[1].temp_anomaly_C

\* C5: a step whose lookup fails appends no record, leaves the anomaly as it
\* was and hands over to the next step; it does not end the run.
C5_FailedStepSkipped ==
    [][ (pc = "loop" /\ step < SIMULATION_STEPS /\ step \in noData) =>
          /\ sim' = sim
          /\ step' = step + 1
          /\ pc' = "loop"
          /\ exc' = "none" ]_vars

\* a step was skipped while the anomaly was not 0, and the run goes on
C5_Witness ==
    /\ pc = "loop"
    /\ step >= 1
    /\ (step - 1) \in noData
    /\ step < SIMULATION_STEPS
    /\ sim.climate.temperature_anomaly_C # 0
    /\ sim.results # << >>

\* C6: run() on a fresh Simulation never raises and returns the records of
\* exactly the steps of [0, N) whose lookup succeeded, in increasing order.
C6_ReturnsSucceededSteps ==
    /\ exc # "AttributeError"
    /\ (pc = "returned" /\ runs = 1 /\ sim.climate.temp_data # None
                         /\ sim.climate.rad_data # None) =>
           Months(ret) = GoodSteps(SIMULATION_STEPS)

\* C7: when a dataset cannot be opened, run() returns the empty sequence
\* without raising, runs no step, appends no record and leaves the anomaly
\* as it was: 0 on a fresh instance.
C7_HaltsOnMissingData ==
    [][ (pc = "run" /\ (sim'.climate.temp_data = None
                         \/ sim'.climate.rad_data = None)) =>
          /\ pc' = "returned"
          /\ ret' = << >>
          /\ exc' = "none"
          /\ sim'.results = sim.results
          /\ sim'.climate.temperature_anomaly_C =
                 sim.climate.temperature_anomaly_C
          /\ (runs = 0 => /\ sim'.results = << >>
                          /\ sim'.climate.temperature_anomaly_C = 0) ]_vars

\* the first run() of an instance returned after the radiation dataset alone
\* failed to open
C7_Witness ==
    /\ pc = "returned"
    /\ runs = 1
    /\ sim.climate.temp_data # None
    /\ sim.climate.rad_data = None
    /\ ret = << >>
    /\ sim.results = << >>

\* C8: once a run() of an instance has finished (here: returned its
\* records), a further call runs no step: it appends no record and does not
\* change the anomaly.
C8_RunsOnce ==
    [][ (runs' >= 2 /\ ret # << >>) =>
          /\ sim'.results = sim.results
          /\ sim'.climate.temperature_anomaly_C =
                 sim.climate.temperature_anomaly_C ]_vars

\* C9: the sweep is never aborted by the failure of one pair's simulation.
C9_SweepContinues ==
    driver = "main_batch" => pc # "raised"

\* C10: every summary row of a material with efficiency 0 has
\* global_temp_change_C = 0 and total_co2_reduction_Gt = 0.
C10_ZeroEfficiency ==
    \A k \in 1 .. Len(all_results) :
        all_results[k].panel_efficiency = 0 =>
            /\ all_results[k].global_temp_change_C = 0
            /\ all_results[k].total_co2_reduction_Gt = 0

\* the rows of an efficiency-0 material whose run saw sunlight, for two
\* different coverages
C10_Witness ==
    /\ Len(all_results) >= 2
    /\ Last(all_results).panel_efficiency = 0
    /\ Last(all_results).avg_local_temp_anomaly_C # 0
    /\ all_results[Len(all_results) - 1].material_type =
           Last(all_results).material_type
    /\ all_results[Len(all_results) - 1].coverage_scenario #
           Last(all_results).coverage_scenario

\* the pair whose coverage rows are being, or were last, appended
CurrentPair == IF pc = "next_pair" THEN pair - 1 ELSE pair

RowOfPair(row, p) ==
    /\ row.surface_type = SurfaceOf(p).key
    /\ row.material_type = MaterialOf(p).key

\* C11: the sweep calls run() once per (surface, material) pair, and all
\* coverage rows of a pair carry the same avg_local_temp_anomaly_C, the
\* arithmetic mean of temp_anomaly_C over the records of that run.
C11_OneRunOneAverage ==
    driver = "main_batch" =>
        /\ runs <= 1
        /\ \A j, k \in 1 .. Len(all_results) :
              (/\ all_results[j].surface_type = all_results[k].surface_type
               /\ all_results[j].material_type = all_results[k].material_type)
              => all_results[j].avg_local_temp_anomaly_C =
                     all_results[k].avg_local_temp_anomaly_C
        /\ pc \in {"coverage", "next_pair", "save", "done"} =>
              /\ runs = 1
              /\ \A k \in 1 .. Len(all_results) :
                    RowOfPair(all_results[k], CurrentPair) =>
                        all_results[k].avg_local_temp_anomaly_C =
                            SumOf(ret, "temp_anomaly_C") \div Len(ret)

\* all coverage rows of an efficiency-0 pair are written, from a run of at
\* least two records with a non-zero mean anomaly
C11_Witness ==
    /\ driver = "main_batch"
    /\ pc = "next_pair"
    /\ MaterialOf(CurrentPair).efficiency = 0
    /\ Len(ret) >= 2
    /\ SumOf(ret, "temp_anomaly_C") # 0
    /\ Len(all_results) = CurrentPair * Len(COVERAGE_SCENARIOS)
    /\ Last(all_results).avg_local_temp_anomaly_C =
           SumOf(ret, "temp_anomaly_C") \div Len(ret)

\* C12: the summary holds the rows in nested enumeration order (surface
\* outermost, material in the middle, coverage innermost), and a sweep that
\* completes saves one row per (surface, material, coverage) triple.
C12_NestedOrder ==
    /\ \A k \in 1 .. Len(all_results) :
          LET nc == Len(COVERAGE_SCENARIOS)
              nm == Len(MATERIAL_TYPES)
          IN  /\ all_results[k].surface_type =
                     SURFACE_TYPES[((k - 1) \div (nc * nm)) + 1].key
              /\ all_results[k].material_type =
                     MATERIAL_TYPES[(((k - 1) \div nc) % nm) + 1].key
              /\ all_results[k].coverage_scenario =
                     COVERAGE_SCENARIOS[((k - 1) % nc) + 1].key
    /\ (driver = "main_batch" /\ pc = "done") =>
          /\ saved = all_results
          /\ Len(saved) = Len(SURFACE_TYPES) * Len(MATERIAL_TYPES)
                              * Len(COVERAGE_SCENARIOS)

\* a completed sweep
C12_Witness ==
    /\ driver = "main_batch"
    /\ pc = "done"
    /\ Len(saved) = 48
    /\ saved[48].surface_type = "ocean"
    /\ saved[48].material_type = "bare_ground"
    /\ saved[48].coverage_scenario = "extreme_scale"

\* C13: the panel albedo used by a pair's run and reported in its rows is the
\* surface's albedo when the material has none of its own, else the
\* material's.
C13_PanelAlbedo ==
    /\ (driver \in {"main_batch", "api"} /\ pc # "start") =>
          sim.pv.albedo =
              (IF MaterialOf(CurrentPair).albedo = None
               THEN SurfaceOf(CurrentPair).albedo
               ELSE MaterialOf(CurrentPair).albedo)
    /\ \A k \in 1 .. Len(all_results) :
          \E si \in 1 .. Len(SURFACE_TYPES), mi \in 1 .. Len(MATERIAL_TYPES) :
              /\ all_results[k].surface_type = SURFACE_TYPES[si].key
              /\ all_results[k].material_type = MATERIAL_TYPES[mi].key
              /\ all_results[k].panel_albedo =
                     (IF MATERIAL_TYPES[mi].albedo = None
                      THEN SURFACE_TYPES[si].albedo
                      ELSE MATERIAL_TYPES[mi].albedo)

\* a row of bare_ground on the desert carrying the desert's albedo, after a
\* run that used it
C13_Witness ==
    /\ driver = "main_batch"
    /\ all_results # << >>
    /\ Last(all_results).material_type = "bare_ground"
    /\ Last(all_results).surface_type = "desert"
    /\ Last(all_results).panel_albedo = 40
    /\ sim.pv.albedo = 40
    /\ ret # << >>


\* C14: in the parallel sweep, every record of a worker's run carries the
\* albedo forcing computed with the ground albedo of the surface of that
\* worker's own pair: insolation x area x (surface albedo - panel albedo)
C14_OwnGroundAlbedo ==
    driver = "main_batch_parallel" =>
        \A w \in 1 .. NumWorkers :
            \A i \in 1 .. Len(workers[w].sim.results) :
                LET r == workers[w].sim.results[i]
                    own == SurfaceOf(workers[w].pair).albedo
                IN  r.albedo_forcing_W =
                        r.insolation_W_m2 * workers[w].sim.pv.area
                            * (own - workers[w].sim.pv.albedo)


\* C15: calculate_global_impact(E) returns the CO2 reduction
\* E x 1e6 x 0.5366 / 1000 / 1e9 GtCO2, which is >= 0, and the temperature
\* change -(that / 1000) x 0.5 C, which is <= 0; 1,000,000 GWh give
\* 0.5366 GtCO2 and -0.0002683 C
C15_GlobalImpact ==
    (call.fn = "calculate_global_impact" /\ result # << >>) =>
        LET E == call.args[1]
            global_temp_change_c == result[1]
            total_co2_reduction_gtco2 == result[2]
        IN  /\ total_co2_reduction_gtco2 = E * 5366
            /\ total_co2_reduction_gtco2 >= 0
            /\ global_temp_change_c = 0 - total_co2_reduction_gtco2 * 5
            /\ global_temp_change_c <= 0
            /\ E = 1000 => result = << -26830000, 5366000 >>

C15_Witness ==
    /\ call.fn = "calculate_global_impact"
    /\ call.args[1] = 1000
    /\ result = << -26830000, 5366000 >>

\* C16: calculate_net_radiation_change is linear in the irradiance: scaling
\* the irradiance by k > 0 scales the returned change by k
C16_LinearInIrradiance ==
    (call.fn = "calculate_net_radiation_change" /\ result # << >>) =>
        \A k \in 1 .. MaxFactor :
            calculate_net_radiation_change(k * call.args[1], call.args[2],
                                           call.args[3], call.args[4])
                = k * result[1]

C16_Witness ==
    /\ call.fn = "calculate_net_radiation_change"
    /\ call.args[1] = 100
    /\ result # << >>
    /\ result[1] # 0
    /\ calculate_net_radiation_change(MaxFactor * 100, call.args[2],
                                      call.args[3], call.args[4])
           = MaxFactor * result[1]

\* C17: calculate_net_radiation_change(I, ga, pa, e) returns
\* I (1 - pa) (1 - e) - I (1 - ga); I = 700, ga = 0.25, pa = 0.15, e = 0.25
\* give -78.75 W/m^2
C17_NetRadiationChange ==
    (call.fn = "calculate_net_radiation_change" /\ result # << >>) =>
        LET I == call.args[1]
            ga == call.args[2]
            pa == call.args[3]
            e == call.args[4]
        IN  /\ result[1] = I * (100 - pa) * (100 - e) - I * (100 - ga) * 100
            /\ call.args = << 700, 25, 15, 25 >> => result[1] = -787500

C17_Witness ==
    /\ call = [fn |-> "calculate_net_radiation_change",
               args |-> << 700, 25, 15, 25 >>]
    /\ result = << -787500 >>

\* C20: for every longitude passed to get_variables, those below -360 and
\* those at or above 360 included, the longitude used for the dataset
\* lookup lies in [0, 360)
C20_LookupLongitudeInRange ==
    (call.fn = "get_variables" /\ result # << >>) =>
        (0 <= result[1] /\ result[1] < 360)


\* C18: two runs on fresh instances with the same configuration, the same
\* panel parameters and the same answers of the data sources (both loads
\* succeed or both fail, the same steps fail) return the same records
C18_Deterministic ==
    (/\ driver = "caller"
     /\ prev.set
     /\ pc = "returned"
     /\ prev.loaded
            <=> (sim.climate.temp_data # None /\ sim.climate.rad_data # None))
        => ret = prev.ret

C18_Witness ==
    /\ driver = "caller"
    /\ prev.set
    /\ pc = "returned"
    /\ Len(ret) >= 2
    /\ Len(ret) < SIMULATION_STEPS
    /\ ret[Len(ret)].temp_anomaly_C # 0
    /\ ret = prev.ret

\* C19: a run whose panel area is <= 0 appends no record and stores no
\* anomaly
C19_NonPositiveAreaFailsFast ==
    (driver = "caller" /\ sim.pv.area <= 0) =>
        /\ sim.results = << >>
        /\ sim.climate.temperature_anomaly_C = 0


\* C21: every record appended by run() has albedo_forcing_W = insolation x
\* area x (ground albedo - panel albedo) and waste_heat_forcing_W +
\* pv_power_W = insolation x area x (1 - panel albedo), and the forcing
\* given to apply_energy_forcing at that step is albedo_forcing_W +
\* waste_heat_forcing_W (the anomaly it leaves is that of this sum)
C21_RecordIdentities ==
    [][ Len(sim'.results) = Len(sim.results) + 1 =>
          LET r == sim'.results[Len(sim'.results)]
          IN  /\ r.albedo_forcing_W =
                     r.insolation_W_m2 * sim.pv.area
                         * (GROUND_ALBEDO - sim.pv.albedo)
              /\ r.waste_heat_forcing_W + r.pv_power_W =
                     r.insolation_W_m2 * sim.pv.area * (100 - sim.pv.albedo)
              /\ sim'.climate.temperature_anomaly_C =
                     (Div(r.albedo_forcing_W + r.waste_heat_forcing_W,
                          sim.pv.area) * CLIMATE_SENSITIVITY) \div 10 ]_vars

\* a step with insolation was recorded for a panel that differs from the
\* ground and produces power
C21_Witness ==
    /\ sim.results # << >>
    /\ sim.results[Len(sim.results)].insolation_W_m2 > 0
    /\ sim.results[Len(sim.results)].pv_power_W > 0
    /\ sim.results[Len(sim.results)].albedo_forcing_W # 0
    /\ sim.results[Len(sim.results)].albedo_forcing_W =
           sim.results[Len(sim.results)].insolation_W_m2 * sim.pv.area
               * (GROUND_ALBEDO - sim.pv.albedo)
    /\ sim.results[Len(sim.results)].waste_heat_forcing_W
           + sim.results[Len(sim.results)].pv_power_W =
           sim.results[Len(sim.results)].insolation_W_m2 * sim.pv.area
               * (100 - sim.pv.albedo)


\* the loop of run() from step i on, on an instance whose data are loaded,
\* with the given ground albedo: the records it returns
RECURSIVE RunAloneFrom(_, _, _)
RunAloneFrom(self, ground_albedo, i) ==
    IF i >= SIMULATION_STEPS THEN self.results
    ELSE IF get_variables(self.climate, i).ok
    THEN RunAloneFrom(step_body(self, ground_albedo, i,
                                get_variables(self.climate, i)),
                      ground_albedo, i + 1)
    ELSE RunAloneFrom(self, ground_albedo, i + 1)

\* pair p run alone: a fresh Simulation with the pair's panel parameters,
\* the ground albedo of the pair's surface, both datasets loaded
RunAlone(p) ==
    RunAloneFrom([Simulation EXCEPT
                     !.pv.albedo = IF MaterialOf(p).albedo = None
                                   THEN SurfaceOf(p).albedo
                                   ELSE MaterialOf(p).albedo,
                     !.pv.efficiency = MaterialOf(p).efficiency,
                     !.climate.temp_data = 1,
                     !.climate.rad_data = 1],
                 SurfaceOf(p).albedo, 0)

\* C22: in the sequential sweep each pair starts with no record, anomaly 0
\* and the ground albedo of its own surface, and the records its run returns
\* are those of the pair run alone on a fresh Simulation, whatever pairs were
\* run before it
C22_IndependentOfEarlierPairs ==
    driver = "main_batch" =>
        /\ pc = "run" =>
              /\ sim.results = << >>
              /\ sim.climate.temperature_anomaly_C = 0
              /\ GROUND_ALBEDO = SurfaceOf(pair).albedo
        /\ pc = "returned" =>
              ret = IF sim.climate.temp_data # None
                         /\ sim.climate.rad_data # None
                    THEN RunAlone(pair)
                    ELSE << >>

\* a later pair of the sweep has returned its records after an earlier pair
\* left an anomaly
C22_Witness ==
    /\ driver = "main_batch"
    /\ pc = "returned"
    /\ pair >= 2
    /\ all_results # << >>
    /\ all_results[1].avg_local_temp_anomaly_C # 0
    /\ Len(ret) >= 2
    /\ ret[1].temp_anomaly_C # 0
    /\ ret = RunAlone(pair)


\* the coverage fraction (in 1e-4) of a row
CoverageOfRow(row) ==
    (CHOOSE c \in {COVERAGE_SCENARIOS[k] : k \in 1 .. Len(COVERAGE_SCENARIOS)} :
        c.key = row.coverage_scenario).percentage

\* C23: for a pair with efficiency > 0, global_temp_change_C and
\* total_co2_reduction_Gt of its rows are proportional to the coverage
\* fraction (a row whose coverage is q times that of another row of the pair
\* has q times its values), and in every row total_co2_reduction_Gt >= 0 and
\* global_temp_change_C <= 0.  Rows are only ever appended, so the property
\* is stated of the newest row against the rows before it.
C23_ProportionalToCoverage ==
    all_results # << >> =>
        LET n == Len(all_results)
            new == all_results[n]
        IN  /\ new.total_co2_reduction_Gt >= 0
            /\ new.global_temp_change_C <= 0
            /\ \A j \in 1 .. n :
                  (/\ all_results[j].surface_type = new.surface_type
                   /\ all_results[j].material_type = new.material_type
                   /\ new.panel_efficiency > 0
                   /\ CoverageOfRow(new) % CoverageOfRow(all_results[j]) = 0)
                  => LET q == CoverageOfRow(new)
                                  \div CoverageOfRow(all_results[j])
                     IN  /\ new.total_co2_reduction_Gt =
                                all_results[j].total_co2_reduction_Gt * q
                         /\ new.global_temp_change_C =
                                all_results[j].global_temp_change_C * q

\* the rows of the smallest and the largest coverage of a producing pair
C23_Witness ==
    /\ Len(all_results) >= Len(COVERAGE_SCENARIOS)
    /\ all_results[1].panel_efficiency > 0
    /\ all_results[1].total_co2_reduction_Gt > 0
    /\ all_results[1].global_temp_change_C < 0
    /\ all_results[4].material_type = all_results[1].material_type
    /\ all_results[4].surface_type = all_results[1].surface_type
    /\ CoverageOfRow(all_results[4]) = 1000 * CoverageOfRow(all_results[1])
    /\ all_results[4].total_co2_reduction_Gt =
           1000 * all_results[1].total_co2_reduction_Gt
    /\ all_results[4].global_temp_change_C =
           1000 * all_results[1].global_temp_change_C


\* C24: a run started by main or main_albedo_scenario, no sweep having run
\* before, raises nothing, and every record it appends has the albedo
\* forcing of the default ground albedo 0.25
C24_SingleRunUsesDefaultAlbedo ==
    driver \in {"main", "main_albedo_scenario"} =>
        /\ pc # "raised"
        /\ exc = "none"
        /\ \A i \in 1 .. Len(sim.results) :
              sim.results[i].albedo_forcing_W =
                  sim.results[i].insolation_W_m2 * sim.pv.area
                      * (GROUND_ALBEDO_DEFAULT - sim.pv.albedo)


\* C25: for the bare_ground material on any surface, every record of the
\* run has albedo_forcing_W = 0, pv_power_W = 0 and waste_heat_forcing_W =
\* insolation x area x (1 - surface albedo); its anomaly is
\* CLIMATE_SENSITIVITY x insolation x (1 - surface albedo), which is > 0
\* whenever insolation > 0 and the surface albedo is < 1
C25_BareGround ==
    (/\ driver \in {"main_batch", "api"}
     /\ MaterialOf(CurrentPair).key = "bare_ground") =>
        \A i \in 1 .. Len(sim.results) :
            LET r == sim.results[i]
                surface_albedo == SurfaceOf(CurrentPair).albedo
            IN  /\ r.albedo_forcing_W = 0
                /\ r.pv_power_W = 0
                /\ r.waste_heat_forcing_W =
                       r.insolation_W_m2 * sim.pv.area * (100 - surface_albedo)
                /\ r.temp_anomaly_C =
                       (r.insolation_W_m2 * (100 - surface_albedo)
                            * CLIMATE_SENSITIVITY) \div 10
                /\ (r.insolation_W_m2 > 0 /\ surface_albedo < 100) =>
                       r.temp_anomaly_C > 0

\* bare ground on the desert surface, a step with insolation recorded
C25_Witness ==
    /\ driver = "main_batch"
    /\ MaterialOf(CurrentPair).key = "bare_ground"
    /\ SurfaceOf(CurrentPair).key = "desert"
    /\ sim.pv.albedo = SurfaceOf(CurrentPair).albedo
    /\ sim.pv.efficiency = 0
    /\ sim.results # << >>
    /\ sim.results[1].insolation_W_m2 > 0
    /\ sim.results[1].albedo_forcing_W = 0
    /\ sim.results[1].temp_anomaly_C > 0

=============================================================================
